---- MODULE Spec2Model ----
(***************************************************************************)
(* A model of src/data/fillChainDetails.py: the chain-details enrichment   *)
(* script.  main() loads the contract registry, loads the cache file,      *)
(* walks the registry's chain ids (prompt / fetch / merge or create) and   *)
(* writes the cache file once at the end.  Strings are TLA+ strings, JSON  *)
(* objects are functions from keys to values, JSON arrays are sequences.   *)
(***************************************************************************)
EXTENDS Naturals, Integers, Sequences, FiniteSets, TLC

VARIABLES
    pc,             \* main()'s position: start, loaded, loop, done, failed, crashed
    contracts,      \* the registry get_contracts() returned (ordered mapping)
    testnets,       \* TESTNETS, computed for the log line only
    file,           \* the cache file on disk: [exists, content]
    file0,          \* the cache file as it was when the run started
    chain_details,  \* main()'s in-memory mapping chain id -> record
    i,              \* position of the for loop in chain_ids
    writes,         \* number of times the cache file was opened for writing
    log,            \* I/O issued by the loop: prompts, sleeps, requests
    outcome,        \* per chain id: what its loop iteration did and saw
    loaded,         \* <<>>, then <<what get_contracts() did>>
    call,           \* argument of a function exercised on its own
    ret             \* <<>> before the call returned, <<result>> after

vars == <<pc, contracts, testnets, file, file0, chain_details,
          i, writes, log, outcome, loaded, call, ret>>

mainVars == <<pc, contracts, testnets, file, file0,
              chain_details, i, writes, log, outcome, loaded>>

-----------------------------------------------------------------------------
(* Bounds of the model. *)

\* longest registry (and number of distinct chain ids)
MaxChains == 2

\* longest candidate-name list handed to get_chain_icon on its own
MaxNames == 2

-----------------------------------------------------------------------------
(* Python string and dict primitives. *)

LowerChar(c) ==
    CASE c = "A" -> "a" [] c = "B" -> "b" [] c = "C" -> "c" [] c = "D" -> "d"
      [] c = "E" -> "e" [] c = "F" -> "f" [] c = "G" -> "g" [] c = "H" -> "h"
      [] c = "I" -> "i" [] c = "J" -> "j" [] c = "K" -> "k" [] c = "L" -> "l"
      [] c = "M" -> "m" [] c = "N" -> "n" [] c = "O" -> "o" [] c = "P" -> "p"
      [] c = "Q" -> "q" [] c = "R" -> "r" [] c = "S" -> "s" [] c = "T" -> "t"
      [] c = "U" -> "u" [] c = "V" -> "v" [] c = "W" -> "w" [] c = "X" -> "x"
      [] c = "Y" -> "y" [] c = "Z" -> "z" [] OTHER -> c

RECURSIVE lower(_)
lower(s) ==
    IF Len(s) = 0 THEN ""
    ELSE IF Len(s) = 1 THEN LowerChar(s)
    ELSE LET h == Len(s) \div 2
         IN  lower(SubSeq(s, 1, h)) \o lower(SubSeq(s, h + 1, Len(s)))

startswith(s, prefix) ==
    Len(s) >= Len(prefix) /\ SubSeq(s, 1, Len(prefix)) = prefix

endswith(s, suffix) ==
    Len(s) >= Len(suffix) /\ SubSeq(s, Len(s) - Len(suffix) + 1, Len(s)) = suffix

\* Python's `sub in s`
contains(s, sub) ==
    \E k \in 1..(Len(s) + 1) :
        /\ k + Len(sub) - 1 <= Len(s)
        /\ SubSeq(s, k, k + Len(sub) - 1) = sub

\* s.find(sub) + 1: the position of the first occurrence, 0 when there is none
find(s, sub) ==
    LET hits == {k \in 1..Len(s) :
                    /\ k + Len(sub) - 1 <= Len(s)
                    /\ SubSeq(s, k, k + Len(sub) - 1) = sub}
    IN  IF hits = {} THEN 0 ELSE CHOOSE k \in hits : \A j \in hits : k <= j

\* s.replace(old, new) for a non-empty old: every occurrence, left to right
RECURSIVE replace(_, _, _)
replace(s, old, new) ==
    LET k == find(s, old)
    IN  IF k = 0 THEN s
        ELSE SubSeq(s, 1, k - 1) \o new
                 \o replace(SubSeq(s, k + Len(old), Len(s)), old, new)

DigitChar(d) ==
    CASE d = 0 -> "0" [] d = 1 -> "1" [] d = 2 -> "2" [] d = 3 -> "3"
      [] d = 4 -> "4" [] d = 5 -> "5" [] d = 6 -> "6" [] d = 7 -> "7"
      [] d = 8 -> "8" [] d = 9 -> "9"

CharDigit(c) ==
    CASE c = "0" -> 0 [] c = "1" -> 1 [] c = "2" -> 2 [] c = "3" -> 3
      [] c = "4" -> 4 [] c = "5" -> 5 [] c = "6" -> 6 [] c = "7" -> 7
      [] c = "8" -> 8 [] c = "9" -> 9

\* str(n) for a non-negative int
RECURSIVE str(_)
str(n) == IF n < 10 THEN DigitChar(n) ELSE str(n \div 10) \o DigitChar(n % 10)

\* int(s) for a string of decimal digits
RECURSIVE int(_)
int(s) ==
    IF Len(s) = 1 THEN CharDigit(s)
    ELSE 10 * int(SubSeq(s, 1, Len(s) - 1)) + CharDigit(SubSeq(s, Len(s), Len(s)))

\* os.path.join(base, name)
path_join(base, name) ==
    IF startswith(name, "/") THEN name
    ELSE IF base = "" \/ endswith(base, "/") THEN base \o name
    ELSE base \o "/" \o name

\* {**a, **b}
DictMerge(a, b) ==
    [k \in DOMAIN a \cup DOMAIN b |-> IF k \in DOMAIN b THEN b[k] ELSE a[k]]

\* d[k] = v
DictSet(d, k, v) ==
    [x \in DOMAIN d \cup {k} |-> IF x = k THEN v ELSE d[x]]

\* the empty dict
EmptyDict == [k \in {} |-> 0]

(* A JSON string stored under "icon" is held as [str |-> s] and an icon    *)
(* descriptor as [url |-> u, format |-> f], so that the two kinds of value *)
(* can be told apart the way Python's dynamic types tell them apart.       *)
JStr(s) == [str |-> s]

IsJStr(v) == DOMAIN v = {"str"}

\* Python truthiness of a value stored under "icon"
Truthy(v) == IF IsJStr(v) THEN v.str /= "" ELSE DOMAIN v /= {}

-----------------------------------------------------------------------------
(* Module constants of the script. *)

CONTRACTS_FILE == "contracts.json"

CONTRACTS_REMOTE ==
    "https://raw.githubusercontent.com/peanutprotocol/peanut-contracts/xchain/contracts.json"

CHAINS_URL ==
    "https://raw.githubusercontent.com/ethereum-lists/chains/master/_data/chains"

ICONS_URL ==
    "https://raw.githubusercontent.com/ethereum-lists/chains/master/_data/icons"

CRYPTO_ICONS_URL ==
    "https://raw.githubusercontent.com/spothq/cryptocurrency-icons/master/svg/color"

TRUST_WALLET_ICONS_URL ==
    "https://raw.githubusercontent.com/trustwallet/assets/8ee07e9d791bec6c3ada3cfac73ddfdc4f4a40b7/blockchains/"

DEFAULT_ICON_URL ==
    "https://raw.githubusercontent.com/spothq/cryptocurrency-icons/master/svg/color/generic.svg"

-----------------------------------------------------------------------------
(* check_rpc: the liveness probe of one endpoint.  `response` is what the  *)
(* endpoint would answer to the POST: [raised, status_code].  The result   *)
(* carries the number of requests.post calls made.                         *)

\* check_rpc with the first two rules in the wrong order
check_rpc_infura_first(rpc, response) ==
    IF contains(lower(rpc), "infura")
    THEN [value |-> TRUE, posts |-> 0]
    ELSE IF startswith(rpc, "wss://")
    THEN [value |-> FALSE, posts |-> 0]
    ELSE IF response.raised
    THEN [value |-> FALSE, posts |-> 1]
    ELSE [value |-> (response.status_code = 200), posts |-> 1]

check_rpc(rpc, response) ==
    IF startswith(rpc, "wss://")
    THEN [value |-> FALSE, posts |-> 0]
    ELSE IF contains(lower(rpc), "infura")
    THEN [value |-> TRUE, posts |-> 0]
    ELSE IF response.raised
    THEN [value |-> FALSE, posts |-> 1]
    ELSE [value |-> (response.status_code = 200), posts |-> 1]

-----------------------------------------------------------------------------
(* get_contracts.  An ordered mapping (a Python dict) is [keys, items].    *)
(* `source` is what the registry source does: [status_code, raises, json], *)
(* raises being "none", "open" (the file cannot be read, the host cannot   *)
(* be reached) or "parse" (the body is not JSON).                          *)

EmptyContracts == [keys |-> <<>>, items |-> EmptyDict]

get_contracts(url, source) ==
    IF startswith(url, "https://")
    THEN IF source.raises = "open"
         THEN [raised |-> TRUE, none |-> TRUE, value |-> EmptyContracts]
         ELSE IF source.status_code = 200
         THEN IF source.raises = "parse"
              THEN [raised |-> TRUE, none |-> TRUE, value |-> EmptyContracts]
              ELSE [raised |-> FALSE, none |-> FALSE, value |-> source.json]
         ELSE [raised |-> FALSE, none |-> TRUE, value |-> EmptyContracts]
    ELSE IF source.raises /= "none"
         THEN [raised |-> FALSE, none |-> TRUE, value |-> EmptyContracts]
         ELSE [raised |-> FALSE, none |-> FALSE, value |-> source.json]

get_chain_ids(c) == c.keys

\* dict.get(key, default)
DictGet(d, k, default) == IF k \in DOMAIN d THEN d[k] ELSE default

\* TESTNETS: int(chain_id) of every entry whose "mainnet" is missing or empty
compute_testnets(c) ==
    LET falsy(k) == DictGet(c.items[c.keys[k]], "mainnet", "") = ""
        F[k \in 0..Len(c.keys)] ==
            IF k = 0 THEN <<>>
            ELSE IF falsy(k) THEN Append(F[k - 1], int(c.keys[k])) ELSE F[k - 1]
    IN  F[Len(c.keys)]

-----------------------------------------------------------------------------
(* get_chain_details.  `response` is the answer to the chain-detail GET:   *)
(* [status_code, json, posts], posts mapping each endpoint URL to what it  *)
(* answers to a liveness POST at that time.  The result is [none, details, *)
(* probes]: probes lists, per endpoint of the document in order, the URL,  *)
(* what check_rpc returned and how many POSTs it made.                     *)

RECURSIVE probe_all(_, _)
probe_all(rpcs, posts) ==
    IF rpcs = <<>> THEN <<>>
    ELSE LET r == check_rpc(Head(rpcs), posts[Head(rpcs)])
         IN  <<[url |-> Head(rpcs), value |-> r.value, posts |-> r.posts]>>
                 \o probe_all(Tail(rpcs), posts)

RECURSIVE live_of(_)
live_of(probes) ==
    IF probes = <<>> THEN <<>>
    ELSE IF Head(probes).value
         THEN <<Head(probes).url>> \o live_of(Tail(probes))
         ELSE live_of(Tail(probes))

chain_url(chain_id) == path_join(CHAINS_URL, "eip155-" \o chain_id \o ".json")

\* get_chain_details that probes the endpoints but keeps the list as fetched
get_chain_details_unfiltered(chain_id, response) ==
    IF response.status_code /= 200
    THEN [none |-> TRUE, details |-> EmptyDict, probes |-> <<>>]
    ELSE LET details == response.json
             rpcs    == DictGet(details, "rpc", <<>>)
             d1      == DictSet(details, "rpc", rpcs)
             d2      == DictSet(d1, "chainId", str(details["chainId"]))
         IN  [none |-> FALSE, details |-> d2,
              probes |-> probe_all(rpcs, response.posts)]

get_chain_details(chain_id, response) ==
    IF response.status_code /= 200
    THEN [none |-> TRUE, details |-> EmptyDict, probes |-> <<>>]
    ELSE LET details   == response.json
             rpcs      == DictGet(details, "rpc", <<>>)
             probes    == probe_all(rpcs, response.posts)
             live_rpcs == live_of(probes)
             d1        == DictSet(details, "rpc", live_rpcs)
             d2        == DictSet(d1, "chainId", str(details["chainId"]))
         IN  [none |-> FALSE, details |-> d2, probes |-> probes]

-----------------------------------------------------------------------------
(* get_chain_icon.  `net` is the state of the icon sources: [ok, index],   *)
(* ok the set of URLs that answer 200 and index the JSON array the         *)
(* metadata index serves.  The result is [raised, icon, requests],         *)
(* requests listing the URLs of the GETs issued, in order.                 *)

\* response.url: the URL as requests prepared it (a space is sent as %20)
response_url(url) == replace(url, " ", "%20")

DefaultIcon == [url |-> DEFAULT_ICON_URL, format |-> "png"]

icons_url(name)  == path_join(ICONS_URL, name \o ".json")

crypto_url(name) == path_join(CRYPTO_ICONS_URL, name \o ".svg")

trust_url(name)  == path_join(TRUST_WALLET_ICONS_URL, name \o "/info/logo.png")

index_icon(net) ==
    [url    |-> replace(net.index[1].url, "ipfs://", "https://ipfs.io/ipfs/"),
     format |-> net.index[1].format]

\* icon_loop that tries the SVG set before the metadata index
RECURSIVE icon_loop_svg_first(_, _, _)
icon_loop_svg_first(names, net, requests) ==
    IF names = <<>>
    THEN [raised |-> FALSE, icon |-> DefaultIcon, requests |-> requests]
    ELSE LET name == Head(names)
             u1   == icons_url(name)
             u2   == crypto_url(name)
             u3   == trust_url(name)
         IN  IF u2 \in net.ok
             THEN [raised |-> FALSE,
                   icon |-> [url |-> response_url(u2), format |-> "svg"],
                   requests |-> requests \o <<u2>>]
             ELSE IF u1 \in net.ok
             THEN [raised |-> FALSE, icon |-> index_icon(net),
                   requests |-> requests \o <<u2, u1>>]
             ELSE IF u3 \in net.ok
             THEN [raised |-> FALSE,
                   icon |-> [url |-> response_url(u3), format |-> "png"],
                   requests |-> requests \o <<u2, u1, u3>>]
             ELSE icon_loop_svg_first(Tail(names), net, requests \o <<u2, u1, u3>>)

RECURSIVE icon_loop(_, _, _)
icon_loop(names, net, requests) ==
    IF names = <<>>
    THEN [raised |-> FALSE, icon |-> DefaultIcon, requests |-> requests]
    ELSE LET name == Head(names)
             u1   == icons_url(name)
             u2   == crypto_url(name)
             u3   == trust_url(name)
         IN  IF u1 \in net.ok
             THEN [raised |-> FALSE, icon |-> index_icon(net),
                   requests |-> requests \o <<u1>>]
             ELSE IF u2 \in net.ok
             THEN [raised |-> FALSE,
                   icon |-> [url |-> response_url(u2), format |-> "svg"],
                   requests |-> requests \o <<u1, u2>>]
             ELSE IF u3 \in net.ok
             THEN [raised |-> FALSE,
                   icon |-> [url |-> response_url(u3), format |-> "png"],
                   requests |-> requests \o <<u1, u2, u3>>]
             ELSE icon_loop(Tail(names), net, requests \o <<u1, u2, u3>>)

get_chain_icon(possible_chain_names, existing_chain_details, net) ==
    IF /\ "icon" \in DOMAIN existing_chain_details
       /\ Truthy(existing_chain_details["icon"])
    THEN IF possible_chain_names = <<>>
         THEN \* possible_chain_names[0] in the log line: IndexError
              [raised |-> TRUE, icon |-> DefaultIcon, requests |-> <<>>]
         ELSE [raised |-> FALSE, icon |-> existing_chain_details["icon"],
               requests |-> <<>>]
    ELSE icon_loop(possible_chain_names, net, <<>>)

-----------------------------------------------------------------------------
(* The body of main()'s for loop, lines 165-218, for one chain id.         *)

\* contracts[str(chain_id)].get("mainnet", "false").lower() == "true"
mainnet_of(c, chain_id) ==
    lower(DictGet(c.items[chain_id], "mainnet", "false")) = "true"

\* the fields a confirmed overwrite always takes from the fetched details
RefreshedKeys == {"rpc", "faucets", "explorers", "infoURL"}

\* the merge with the overlay the wrong way round: fetched values win
merge_existing_fetched_wins(details, cached) ==
    IF \E k \in RefreshedKeys : k \notin DOMAIN details
    THEN [raised |-> TRUE, value |-> cached]
    ELSE [raised |-> FALSE, value |-> DictMerge(cached, details)]

\* lines 188-194; details[k] of a missing key raises KeyError
merge_existing(details, cached) ==
    IF \E k \in RefreshedKeys : k \notin DOMAIN details
    THEN [raised |-> TRUE, value |-> cached]
    ELSE [raised |-> FALSE,
          value  |-> [k \in DOMAIN details \cup DOMAIN cached |->
                        IF k \in RefreshedKeys THEN details[k]
                        ELSE IF k \in DOMAIN cached THEN cached[k]
                        ELSE details[k]]]

\* lines 201-214
possible_chain_names(details) ==
    LET text(k) == IF k \in DOMAIN details /\ details[k] /= ""
                   THEN <<details[k]>> ELSE <<>>
        icon    == IF "icon" \in DOMAIN details /\ Truthy(details["icon"])
                   THEN <<details["icon"].str>> ELSE <<>>
        names   == icon \o text("short_name") \o text("shortName")
                        \o text("name") \o text("chain")
    IN  names \o [k \in 1..Len(names) |-> lower(names[k])]

IoEntry(op, chain_id, url) == [op |-> op, chain |-> chain_id, url |-> url]

RECURSIVE post_log(_, _)
post_log(chain_id, probes) ==
    IF probes = <<>> THEN <<>>
    ELSE (IF Head(probes).posts = 1
          THEN <<IoEntry("post", chain_id, Head(probes).url)>> ELSE <<>>)
         \o post_log(chain_id, Tail(probes))

EmptyIconNet == [ok |-> {}, index |-> <<>>]

NoResponse == [status_code |-> 0, json |-> EmptyDict, posts |-> EmptyDict]

NoOutcome ==
    [kind |-> "none", answer |-> "", response |-> NoResponse,
     details |-> EmptyDict, probes |-> <<>>, names |-> <<>>,
     requests |-> <<>>]

\* a prompt that takes only n for a refusal
declines_only_n(answer) == lower(answer) /= "y" /\ lower(answer) = "n"

\* line 170: user_input.lower() != "y"
declines(answer) == lower(answer) /= "y"

(* loop_body returns [crashed, chain_details, log, outcome].  `answer` is  *)
(* what the operator types at the prompt, `response` the answer to the     *)
(* chain-detail GET, `net` the state of the icon sources.  The mainnet     *)
(* flag is assigned (line 178) before `if not details` (line 182) is       *)
(* reached: on None the assignment raises, and a dict that holds the flag  *)
(* is never empty, so that test never skips an iteration.                  *)
loop_body(cd, c, chain_id, answer, response, net) ==
    LET existing == chain_id \in DOMAIN cd
        prompt   == IF existing THEN <<IoEntry("input", chain_id, "")>> ELSE <<>>
        fetched  == get_chain_details(chain_id, response)
        fetchLog == prompt
                    \o <<IoEntry("sleep", chain_id, ""),
                         IoEntry("get", chain_id, chain_url(chain_id))>>
                    \o post_log(chain_id, fetched.probes)
        details  == DictSet(fetched.details, "mainnet", mainnet_of(c, chain_id))
        merged   == merge_existing(details, cd[chain_id])
        names    == possible_chain_names(details)
        resolved == get_chain_icon(names, DictGet(cd, chain_id, EmptyDict), net)
        typed    == IF existing THEN answer ELSE ""
        seen     == [NoOutcome EXCEPT !.answer = typed, !.response = response,
                                      !.probes = fetched.probes]
    IN  IF existing /\ declines(answer)
        THEN [crashed |-> FALSE, chain_details |-> cd, log |-> prompt,
              outcome |-> [NoOutcome EXCEPT !.kind = "declined", !.answer = answer]]
        ELSE IF fetched.none
        THEN \* details["mainnet"] = ... on None: TypeError
             [crashed |-> TRUE, chain_details |-> cd, log |-> fetchLog,
              outcome |-> [seen EXCEPT !.kind = "fetch_none"]]
        ELSE IF existing
        THEN IF merged.raised
             THEN [crashed |-> TRUE, chain_details |-> cd, log |-> fetchLog,
                   outcome |-> [seen EXCEPT !.kind = "merge_error",
                                            !.details = details]]
             ELSE [crashed |-> FALSE,
                   chain_details |-> DictSet(cd, chain_id, merged.value),
                   log |-> fetchLog,
                   outcome |-> [seen EXCEPT !.kind = "merged",
                                            !.details = details]]
        ELSE IF resolved.raised
        THEN [crashed |-> TRUE, chain_details |-> cd, log |-> fetchLog,
              outcome |-> [seen EXCEPT !.kind = "icon_error", !.details = details]]
        ELSE [crashed |-> FALSE,
              chain_details |->
                  DictSet(cd, chain_id, DictSet(details, "icon", resolved.icon)),
              log |-> fetchLog
                      \o [k \in 1..Len(resolved.requests) |->
                            IoEntry("get", chain_id, resolved.requests[k])],
              outcome |-> [seen EXCEPT !.kind = "created", !.details = details,
                                       !.names = names,
                                       !.requests = resolved.requests]]

-----------------------------------------------------------------------------
(* The inputs of a run: registries, cache files, operator answers and the  *)
(* answers of the network.                                                 *)

IdList == <<"1", "5", "137", "10">>

Ids == {IdList[k] : k \in 1..MaxChains}

RegistryRecord(id) ==
    CASE id = "1" -> [mainnet |-> "true", version |-> "v4"]
      [] id = "5" -> [mainnet |-> "False"]
      [] OTHER    -> [version |-> "v3"]

Registries ==
    {[keys |-> ks, items |-> [id \in {ks[k] : k \in DOMAIN ks} |-> RegistryRecord(id)]] :
        ks \in {q \in UNION {[1..n -> Ids] : n \in 0..MaxChains} :
                    \A a, b \in DOMAIN q : a /= b => q[a] /= q[b]}}

Sources ==
    {[status_code |-> 200, raises |-> "none", json |-> r] : r \in Registries}
    \cup {[status_code |-> 404, raises |-> "none",  json |-> EmptyContracts],
          [status_code |-> 200, raises |-> "open",  json |-> EmptyContracts],
          [status_code |-> 200, raises |-> "parse", json |-> EmptyContracts]}

OldIcon == [url |-> "https://example.org/old-icon.svg", format |-> "svg"]

CachedShapes == {"with_icon", "without_icon"}

CachedRecord(id, shape) ==
    IF shape = "with_icon"
    THEN [chainId |-> id, name |-> "Cached Name", mainnet |-> FALSE,
          rpc |-> <<"https://old.example.org/rpc">>,
          faucets |-> <<"https://old.example.org/faucet">>,
          icon |-> OldIcon, note |-> "kept"]
    ELSE [chainId |-> id, name |-> "Cached Name",
          rpc |-> <<"https://old.example.org/rpc">>,
          infoURL |-> "https://old.example.org"]

CacheFiles ==
    {[exists |-> FALSE, content |-> EmptyDict]}
    \cup UNION {{[exists |-> TRUE,
                  content |-> [id \in S |-> CachedRecord(id, sh[id])]] :
                     sh \in [S -> CachedShapes]} : S \in SUBSET Ids}

Answers == {"y", "Y", "n", "yes"}

InfuraRpc == "https://mainnet.infura.io/v3/${INFURA_API_KEY}"

WssRpc == "wss://mainnet.infura.io/ws/v3/${INFURA_API_KEY}"

AnkrRpc == "https://rpc.ankr.com/eth"

CloudflareRpc == "https://cloudflare-eth.com"

LlamaRpc == "https://eth.llamarpc.com"

Ok200 == [raised |-> FALSE, status_code |-> 200]

Err500 == [raised |-> FALSE, status_code |-> 500]

Timeout == [raised |-> TRUE, status_code |-> 0]

RpcUrls == {InfuraRpc, WssRpc, AnkrRpc, CloudflareRpc, LlamaRpc}

\* what each endpoint answers to a POST
PostNet ==
    [u \in RpcUrls |->
        IF u = CloudflareRpc THEN Err500 ELSE IF u = LlamaRpc THEN Timeout ELSE Ok200]

DocFull(id) ==
    [chainId |-> int(id), name |-> "Ethereum Mainnet", chain |-> "ETH",
     shortName |-> "eth", icon |-> JStr("ethereum"),
     rpc |-> <<CloudflareRpc, AnkrRpc, InfuraRpc, WssRpc, LlamaRpc, AnkrRpc>>,
     faucets |-> <<>>,
     explorers |-> <<[name |-> "etherscan", url |-> "https://etherscan.io"]>>,
     infoURL |-> "https://ethereum.org"]

\* a chain document with no rpc, explorers, icon or shortName
DocBare(id) ==
    [chainId |-> int(id), name |-> "Goerli", chain |-> "ETH",
     faucets |-> <<"https://goerli-faucet.example.org">>,
     infoURL |-> "https://goerli.net"]

ChainResponses(id) ==
    {[status_code |-> 404, json |-> EmptyDict, posts |-> EmptyDict]}
    \cup {[status_code |-> 200, json |-> DocFull(id), posts |-> PostNet]}
    \cup {[status_code |-> 200, json |-> DocBare(id), posts |-> EmptyDict]}

IndexBody == <<[url |-> "ipfs://QmIconHash", format |-> "png"]>>

IconNets ==
    {EmptyIconNet,
     [ok |-> {icons_url("ethereum"), crypto_url("eth")}, index |-> IndexBody],
     [ok |-> {crypto_url("eth"), trust_url("goerli")}, index |-> <<>>]}

-----------------------------------------------------------------------------
(* main() *)

Init ==
    /\ pc = "start"
    /\ contracts = EmptyContracts
    /\ testnets = <<>>
    /\ file \in CacheFiles
    /\ file0 = file
    /\ chain_details = EmptyDict
    /\ i = 0
    /\ writes = 0
    /\ log = <<>>
    /\ outcome = [id \in Ids |-> NoOutcome]
    /\ loaded = <<>>
    /\ call = <<>>
    /\ ret = <<>>

\* main() without the early return on a failed load
LoadContractsUnchecked ==
    /\ pc = "start"
    /\ \E url \in {CONTRACTS_FILE, CONTRACTS_REMOTE}, src \in Sources :
         LET r == get_contracts(url, src)
         IN  /\ loaded' = <<r>>
             /\ IF r.raised
                THEN pc' = "crashed" /\ UNCHANGED <<contracts, testnets>>
                ELSE /\ pc' = "loaded"
                     /\ contracts' = r.value
                     /\ testnets' = compute_testnets(r.value)
    /\ UNCHANGED <<file, file0, chain_details, i, writes, log, outcome, call, ret>>

\* lines 140-155: get_contracts, the early return, TESTNETS, chain_ids.
\* CONTRACTS_URL is either the local file or the remote document.
LoadContracts ==
    /\ pc = "start"
    /\ \E url \in {CONTRACTS_FILE, CONTRACTS_REMOTE}, src \in Sources :
         LET r == get_contracts(url, src)
         IN  /\ loaded' = <<r>>
             /\ IF r.raised
                THEN pc' = "crashed" /\ UNCHANGED <<contracts, testnets>>
                ELSE IF r.none \/ r.value.keys = <<>>
                THEN pc' = "failed" /\ UNCHANGED <<contracts, testnets>>
                ELSE /\ pc' = "loaded"
                     /\ contracts' = r.value
                     /\ testnets' = compute_testnets(r.value)
    /\ UNCHANGED <<file, file0, chain_details, i, writes, log, outcome, call, ret>>

\* lines 157-162
LoadCache ==
    /\ pc = "loaded"
    /\ chain_details' = IF file.exists THEN file.content ELSE EmptyDict
    /\ i' = 1
    /\ pc' = "loop"
    /\ UNCHANGED <<contracts, testnets, file, file0, writes, log, outcome,
                   loaded, call, ret>>

\* the state after one iteration of the for loop
Iterate(chain_id, answer, response, net) ==
    LET r == loop_body(chain_details, contracts, chain_id, answer, response, net)
    IN  /\ chain_details' = r.chain_details
        /\ log' = log \o r.log
        /\ outcome' = [outcome EXCEPT ![chain_id] = r.outcome]
        /\ pc' = IF r.crashed THEN "crashed" ELSE "loop"
        /\ i' = IF r.crashed THEN i ELSE i + 1
        /\ UNCHANGED <<contracts, testnets, file, file0, writes, loaded, call, ret>>

InLoop == pc = "loop" /\ i <= Len(get_chain_ids(contracts))

\* lines 164-171: the id is cached and the operator does not answer y
DeclineOverwrite ==
    /\ InLoop
    /\ get_chain_ids(contracts)[i] \in DOMAIN chain_details
    /\ \E answer \in {a \in Answers : declines(a)} :
         Iterate(get_chain_ids(contracts)[i], answer, NoResponse, EmptyIconNet)

\* lines 164-197: the id is cached and the operator answers y
ConfirmOverwrite ==
    /\ InLoop
    /\ get_chain_ids(contracts)[i] \in DOMAIN chain_details
    /\ \E answer \in {a \in Answers : ~declines(a)},
          response \in ChainResponses(get_chain_ids(contracts)[i]) :
         Iterate(get_chain_ids(contracts)[i], answer, response, EmptyIconNet)

\* lines 164-218: the id is not cached
CreateEntry ==
    /\ InLoop
    /\ get_chain_ids(contracts)[i] \notin DOMAIN chain_details
    /\ \E response \in ChainResponses(get_chain_ids(contracts)[i]),
          net \in IconNets :
         Iterate(get_chain_ids(contracts)[i], "", response, net)

\* a write that does not wait for the end of the loop
PersistEarly ==
    /\ pc = "loop"
    /\ file' = [exists |-> TRUE, content |-> chain_details]
    /\ writes' = writes + 1
    /\ pc' = "done"
    /\ UNCHANGED <<contracts, testnets, file0, chain_details, i, log, outcome,
                   loaded, call, ret>>

\* lines 220-223: the cache file is rewritten whole
Persist ==
    /\ pc = "loop"
    /\ i > Len(get_chain_ids(contracts))
    /\ file' = [exists |-> TRUE, content |-> chain_details]
    /\ writes' = writes + 1
    /\ pc' = "done"
    /\ UNCHANGED <<contracts, testnets, file0, chain_details, i, log, outcome,
                   loaded, call, ret>>

Next ==
    \/ LoadContracts
    \/ LoadCache
    \/ DeclineOverwrite
    \/ ConfirmOverwrite
    \/ CreateEntry
    \/ Persist

Spec == Init /\ [][Next]_vars

-----------------------------------------------------------------------------
(* check_rpc and get_chain_icon exercised on their own, on inputs drawn    *)
(* from bounded sets; main() does not run in these specifications.         *)

NotRunning ==
    /\ pc = "idle"
    /\ contracts = EmptyContracts
    /\ testnets = <<>>
    /\ file = [exists |-> FALSE, content |-> EmptyDict]
    /\ file0 = file
    /\ chain_details = EmptyDict
    /\ i = 0
    /\ writes = 0
    /\ log = <<>>
    /\ outcome = [id \in Ids |-> NoOutcome]
    /\ loaded = <<>>

\* an endpoint URL is scheme \o host \o path
Schemes == {"wss://", "https://", "http://"}

Hosts == {"rpc.example.org", "mainnet.infura.io", "Goerli.INFURA.io", "wss.example.org"}

Paths == {"", "/v3/key", "/v3/${INFURA_API_KEY}", "/proxy/Infura/wss://x"}

PostResponses == {Ok200, Err500, Timeout}

endpoint(c) == c.scheme \o c.host \o c.path

InitRpc ==
    /\ NotRunning
    /\ call \in [scheme : Schemes, host : Hosts, path : Paths,
                 response : PostResponses]
    /\ ret = <<>>

CallCheckRpc ==
    /\ ret = <<>>
    /\ ret' = <<check_rpc(endpoint(call), call.response)>>
    /\ UNCHANGED <<mainVars, call>>

NextRpc == CallCheckRpc

SpecRpc == InitRpc /\ [][NextRpc]_vars

IconNames == {"eth", "Ethereum Mainnet"}

NameLists == UNION {[1..n -> IconNames] : n \in 0..MaxNames}

IconUrls ==
    UNION {{icons_url(n), crypto_url(n), trust_url(n)} : n \in IconNames}

ExistingRecords ==
    {EmptyDict,
     [name |-> "Cached Name"],
     [name |-> "Cached Name", icon |-> JStr("")],
     [name |-> "Cached Name", icon |-> OldIcon]}

InitIcon ==
    /\ NotRunning
    /\ call \in [names : NameLists, existing : ExistingRecords,
                 net : [ok : SUBSET IconUrls, index : {IndexBody}]]
    /\ ret = <<>>

CallGetChainIcon ==
    /\ ret = <<>>
    /\ ret' = <<get_chain_icon(call.names, call.existing, call.net)>>
    /\ UNCHANGED <<mainVars, call>>

NextIcon == CallGetChainIcon

SpecIcon == InitIcon /\ [][NextIcon]_vars

-----------------------------------------------------------------------------
(* Properties of a run of main(), checked under Spec.                      *)

\* the cache as main() loads it when the run starts
StartCache == IF file0.exists THEN file0.content ELSE EmptyDict

\* main() has loaded the cache: chain_details is the run's mapping
CacheLoaded == i >= 1

RegistryIds == {contracts.keys[k] : k \in DOMAIN contracts.keys}

IsDescriptor(v) == DOMAIN v = {"url", "format"}

\* the entries the loop has logged for one chain id, prompts left out
IoFor(id) == {k \in DOMAIN log : log[k].chain = id /\ log[k].op /= "input"}

(* C1: when the chain-detail GET of an identifier is not 200, the loop     *)
(* skips the identifier: no exception leaves the loop and the entry of     *)
(* the identifier stays as it was (the run goes on to the next identifier  *)
(* and to the final write).                                                *)
C1_FetchNullSkipped ==
    \A id \in Ids :
        outcome[id].kind = "fetch_none" =>
            /\ pc \in {"loop", "done"}
            /\ (id \in DOMAIN chain_details) = (id \in DOMAIN StartCache)
            /\ id \in DOMAIN StartCache => chain_details[id] = StartCache[id]

\* the record the merge policy of C2 prescribes
PolicyMerge(cached, fetched) ==
    [k \in DOMAIN cached \cup DOMAIN fetched |->
        IF k \in {"rpc", "faucets", "explorers", "infoURL"} /\ k \in DOMAIN fetched
        THEN fetched[k]
        ELSE IF k \in DOMAIN cached THEN cached[k] ELSE fetched[k]]

(* C2: after a confirmed overwrite whose fetch succeeded, whatever the     *)
(* cached and the fetched record, the stored record has the keys of both,  *)
(* the cached value for every cached key and the fetched value for the     *)
(* others, except rpc, faucets, explorers and infoURL, which are the       *)
(* fetched ones.                                                           *)
C2_MergePolicy ==
    \A id \in Ids :
        outcome[id].kind \in {"merged", "merge_error"} =>
            chain_details[id] = PolicyMerge(StartCache[id], outcome[id].details)

(* C3: every record a run stores, created or merged, has an icon that is   *)
(* a descriptor {url, format}: not absent, not a bare identifier string.   *)
C3_StoredIconIsDescriptor ==
    \A id \in Ids :
        outcome[id].kind \in {"merged", "created"} =>
            /\ "icon" \in DOMAIN chain_details[id]
            /\ IsDescriptor(chain_details[id]["icon"])

\* the rpc list of the document a chain-detail GET returned
FetchedRpcs(id) == DictGet(outcome[id].response.json, "rpc", <<>>)

\* the entries of rpcs, in order, whose liveness check returned true
RECURSIVE LiveSublist(_, _, _)
LiveSublist(rpcs, probes, k) ==
    IF k > Len(rpcs) THEN <<>>
    ELSE (IF probes[k].value THEN <<rpcs[k]>> ELSE <<>>)
         \o LiveSublist(rpcs, probes, k + 1)

(* C4: the rpc list of every record created or refreshed in the run is     *)
(* the fetched document's rpc list restricted, in order, to the URLs whose *)
(* liveness check returned true, in memory and in the file once written;   *)
(* every URL of the document was checked, dead ones included.              *)
C4_RpcIsLiveSublist ==
    \A id \in Ids :
        outcome[id].kind \in {"merged", "created"} =>
            LET rpcs   == FetchedRpcs(id)
                probes == outcome[id].probes
                live   == LiveSublist(rpcs, probes, 1)
            IN  /\ Len(probes) = Len(rpcs)
                /\ \A k \in DOMAIN rpcs : probes[k].url = rpcs[k]
                /\ chain_details[id]["rpc"] = live
                /\ pc = "done" => file.content[id]["rpc"] = live

C4_Witness ==
    \E id \in Ids :
        /\ pc = "done"
        /\ outcome[id].kind = "merged"
        /\ Len(file.content[id]["rpc"]) = 3
        /\ Len(FetchedRpcs(id)) = 6
        /\ \E k \in DOMAIN outcome[id].probes :
              ~outcome[id].probes[k].value /\ outcome[id].probes[k].posts = 1

\* get_contracts() returned None or raised
LoadFailed == loaded /= <<>> /\ (loaded[1].raised \/ loaded[1].none)

(* C5: if loading the registry fails, the run stops without any chain      *)
(* fetch and without writing the cache; the cache file is unchanged.       *)
C5_LoadFailureWritesNothing ==
    LoadFailed =>
        /\ pc \in {"failed", "crashed"}
        /\ log = <<>>
        /\ writes = 0
        /\ file = file0

C5_Witness ==
    /\ LoadFailed
    /\ pc = "failed"
    /\ file0.exists
    /\ DOMAIN file0.content /= {}

\* the cached records that carry an icon descriptor when the run starts
HasCachedIcon(id) ==
    /\ id \in DOMAIN StartCache
    /\ "icon" \in DOMAIN StartCache[id]
    /\ IsDescriptor(StartCache[id]["icon"])

(* C7: a cached record that carries an icon descriptor at the start of    *)
(* the run carries the same descriptor in the cache at every later point,  *)
(* in memory and in the file, whatever was answered and fetched.           *)
C7_CachedIconKept ==
    \A id \in Ids :
        HasCachedIcon(id) =>
            /\ "icon" \in DOMAIN file.content[id]
            /\ file.content[id]["icon"] = StartCache[id]["icon"]
            /\ CacheLoaded =>
                  /\ "icon" \in DOMAIN chain_details[id]
                  /\ chain_details[id]["icon"] = StartCache[id]["icon"]

C7_Witness ==
    \E id \in Ids :
        /\ pc = "done"
        /\ HasCachedIcon(id)
        /\ outcome[id].kind = "merged"
        /\ "icon" \in DOMAIN outcome[id].details
        /\ file.content[id]["rpc"] /= StartCache[id]["rpc"]

(* C9: the cache file is written at most once, and only when the loop has  *)
(* gone through every chain id of the registry; until then the file is     *)
(* what it was when the run started.                                       *)
C9_SingleFinalWrite ==
    /\ writes <= 1
    /\ writes = 1 =>
          /\ pc = "done"
          /\ i = Len(contracts.keys) + 1
          /\ \A id \in RegistryIds : outcome[id].kind /= "none"
    /\ writes = 0 => file = file0

C9_Witness ==
    /\ pc = "done"
    /\ writes = 1
    /\ file /= file0
    /\ Len(contracts.keys) = 2

\* the operator was prompted for id and answered something other than y or Y
AnsweredNo(id) ==
    /\ outcome[id].kind /= "none"
    /\ id \in DOMAIN StartCache
    /\ outcome[id].answer \notin {"y", "Y"}

(* C10: a run never removes a key of the cache; the record of a chain id   *)
(* that is not in the registry, or whose prompt was answered otherwise     *)
(* than y or Y, is the one loaded at the start; for such a declined id no  *)
(* sleep and no request is issued.                                         *)
C10_UntouchedRecords ==
    /\ file.exists => DOMAIN StartCache \subseteq DOMAIN file.content
    /\ CacheLoaded => DOMAIN StartCache \subseteq DOMAIN chain_details
    /\ \A id \in DOMAIN StartCache :
          (CacheLoaded /\ (id \notin RegistryIds \/ AnsweredNo(id))) =>
              /\ chain_details[id] = StartCache[id]
              /\ file.content[id] = StartCache[id]
              /\ IoFor(id) = {}

C10_Witness ==
    \E a, b \in Ids :
        /\ pc = "done"
        /\ a \in DOMAIN StartCache /\ a \notin RegistryIds
        /\ AnsweredNo(b) /\ outcome[b].answer = "yes"
        /\ file.content[b] = StartCache[b]

-----------------------------------------------------------------------------
(* Properties of check_rpc, checked under SpecRpc.                         *)

HostHasInfura(c) == contains(lower(c.host), "infura")

UrlHasInfura(c) ==
    \E part \in {c.host, c.path} : contains(lower(part), "infura")

Answers200(c) == ~c.response.raised /\ c.response.status_code = 200

(* C6: check_rpc applies three rules in order: a wss:// URL is false with  *)
(* no request, even with "infura" in it; otherwise a URL whose host        *)
(* contains "infura" in any case is true with no request; otherwise one    *)
(* POST is made and the result is true iff it answers 200, an exception    *)
(* giving false.                                                           *)
C6_HostRule ==
    ret /= <<>> =>
        ret[1] = IF call.scheme = "wss://" THEN [value |-> FALSE, posts |-> 0]
                 ELSE IF HostHasInfura(call) THEN [value |-> TRUE, posts |-> 0]
                 ELSE [value |-> Answers200(call), posts |-> 1]

(* C6 as amended: the second rule looks at the whole URL, not at its host: *)
(* a URL that is not wss:// and contains "infura" anywhere, in any case,   *)
(* is true with no request.                                                *)
C6_WholeUrlRule ==
    ret /= <<>> =>
        ret[1] = IF call.scheme = "wss://" THEN [value |-> FALSE, posts |-> 0]
                 ELSE IF UrlHasInfura(call) THEN [value |-> TRUE, posts |-> 0]
                 ELSE [value |-> Answers200(call), posts |-> 1]

C6_Witness ==
    /\ ret /= <<>>
    /\ call.scheme = "https://"
    /\ ~HostHasInfura(call)
    /\ UrlHasInfura(call)
    /\ call.response = Err500
    /\ ret[1] = [value |-> TRUE, posts |-> 0]

-----------------------------------------------------------------------------
(* Properties of get_chain_icon, checked under SpecIcon.                   *)

\* a candidate name as it appears in the URL of the response
SentName(name) == IF name = "Ethereum Mainnet" THEN "Ethereum%20Mainnet" ELSE name

\* the k-th (name, source) pair of the scan: names outer, sources inner
PairName(names, k) == names[((k - 1) \div 3) + 1]

PairSource(k) == (k - 1) % 3

PairUrl(names, k) ==
    CASE PairSource(k) = 0 -> ICONS_URL \o "/" \o PairName(names, k) \o ".json"
      [] PairSource(k) = 1 -> CRYPTO_ICONS_URL \o "/" \o PairName(names, k) \o ".svg"
      [] PairSource(k) = 2 ->
             TRUST_WALLET_ICONS_URL \o PairName(names, k) \o "/info/logo.png"

PairIcon(names, k) ==
    CASE PairSource(k) = 0 ->
             [url |-> "https://ipfs.io/ipfs/QmIconHash", format |-> "png"]
      [] PairSource(k) = 1 ->
             [url |-> CRYPTO_ICONS_URL \o "/" \o SentName(PairName(names, k)) \o ".svg",
              format |-> "svg"]
      [] PairSource(k) = 2 ->
             [url |-> TRUST_WALLET_ICONS_URL \o SentName(PairName(names, k))
                          \o "/info/logo.png",
              format |-> "png"]

PairHits(c) == {k \in 1..(3 * Len(c.names)) : PairUrl(c.names, k) \in c.net.ok}

FirstHit(c) == CHOOSE k \in PairHits(c) : \A j \in PairHits(c) : k <= j

(* C8: without an icon in the existing record, get_chain_icon returns the  *)
(* descriptor of the first (name, source) pair that answers 200, names in  *)
(* list order and, per name, metadata index, SVG set, PNG set; it issues   *)
(* the requests of the pairs up to that one and none after; with no pair   *)
(* answering 200 it returns {url: DEFAULT_ICON_URL, format: "png"}.        *)
C8_FirstSourceWins ==
    (ret /= <<>> /\ "icon" \notin DOMAIN call.existing) =>
        /\ ~ret[1].raised
        /\ IF PairHits(call) = {}
           THEN /\ ret[1].icon = [url |-> DEFAULT_ICON_URL, format |-> "png"]
                /\ ret[1].requests =
                       [k \in 1..(3 * Len(call.names)) |-> PairUrl(call.names, k)]
           ELSE /\ ret[1].icon = PairIcon(call.names, FirstHit(call))
                /\ ret[1].requests =
                       [k \in 1..FirstHit(call) |-> PairUrl(call.names, k)]

C8_Witness ==
    /\ ret /= <<>>
    /\ "icon" \notin DOMAIN call.existing
    /\ call.names = <<"eth", "Ethereum Mainnet">>
    /\ PairHits(call) = {5, 6}
    /\ Len(ret[1].requests) = 5
    /\ ret[1].icon.format = "svg"

====
